---- MODULE Spec2Model ----
(***************************************************************************)
(* lex-eval: the lex-llm connector (NDJSON stream decoding, the four HTTP  *)
(* operations), and the workflow comparison script (request loop and       *)
(* composite ranking).                                                     *)
(*                                                                         *)
(* Text is a sequence of characters (<<"a", "b">>); joining text is        *)
(* concatenation of sequences.  Text that is only ever compared as a whole *)
(* (an event tag, an identifier) is written as one symbol.  A JSON value   *)
(* is a record tagged by its Python type after json.loads.  A response     *)
(* body is a sequence of tokens: a newline, a whitespace character other   *)
(* than newline, a piece of text that is no JSON, or the text of one JSON  *)
(* document.                                                               *)
(***************************************************************************)
EXTENDS Integers, Sequences, FiniteSets, TLC

VARIABLES
    body,           \* SpecParse: the response text handed to _parse_ndjson_stream
    pc,             \* SpecParse: "receiving" | "parsed"
    result_data,    \* SpecParse: what _parse_ndjson_stream returned or raised
    base_url,       \* SpecClient: self.base_url
    op,             \* SpecClient: the operation being invoked
    cpc,            \* SpecClient: "idle" | "calling" | "responded" | "finished"
    net_calls,      \* SpecClient: outbound calls made by this invocation
    http,           \* SpecClient: what the outbound call came back with
    outcome,        \* SpecClient: what the operation returned or raised
    workflow_ids,   \* SpecCompare: the identifiers to compare
    lpc,            \* SpecCompare: "loop" | "awaiting" | "evaluating" | "done"
    idx,            \* SpecCompare: position of the loop in workflow_ids
    requests,       \* SpecCompare: the run_workflow requests issued so far
    succeeded,      \* SpecCompare: per finished identifier, whether it succeeded
    workflow_result,\* SpecCompare: what run_workflow returned for this identifier
    results,        \* SpecCompare: the evaluation records appended so far
    ranked,         \* SpecCompare: the ranking, once computed
    response_text,  \* SpecMetrics: the answer text under evaluation
    mpc,            \* SpecMetrics: "idle" | "composing" | "evaluating" | "compared"
    evaluations,    \* SpecMetrics: the EvaluationResults collected so far
    comparison      \* SpecMetrics: what compare_workflows returned

parseVars == <<body, pc, result_data>>
clientVars == <<base_url, op, cpc, net_calls, http, outcome>>
compareVars ==
    <<workflow_ids, lpc, idx, requests, succeeded, workflow_result, results, ranked>>
metricsVars == <<response_text, mpc, evaluations, comparison>>
vars == <<parseVars, clientVars, compareVars, metricsVars>>

\* Longest response body of SpecParse, in tokens.
MaxTokens == 5

----------------------------------------------------------------------------
(* JSON values, as json.loads builds them *)

Absent == [type |-> "absent"]
Null == [type |-> "NoneType"]
Str(s) == [type |-> "str", text |-> s]
List(xs) == [type |-> "list", items |-> xs]
HistoryDict(h) == [type |-> "dict", conversation_history |-> h]
Event(tag, cid, rid, data) ==
    [type |-> "dict", event |-> tag, conversation_id |-> cid, run_id |-> rid,
     data |-> data]

\* dict.get(key, default): the default only when the key is absent.
Get(value, default) == IF value = Absent THEN default ELSE value

NL == [tok |-> "nl"]
SP == [tok |-> "sp"]
BAD == [tok |-> "text"]
Json(v) == [tok |-> "json", json |-> v]

Source1 == [id |-> Str(<<"1">>), title |-> Str(<<"t", "1">>), url |-> Str(<<"u">>)]
Source2 == [id |-> Str(<<"2">>), title |-> Str(<<"t", "2">>), url |-> Str(<<"v">>)]
Message1 == [role |-> Str(<<"user">>), content |-> Str(<<"q">>)]

StreamStart == Json(Event(Str(<<"stream_start">>), Str(<<"c">>), Str(<<"r">>), Absent))
Sources1 == Json(Event(Str(<<"sources">>), Absent, Absent, List(<<Source1>>)))
Sources2 == Json(Event(Str(<<"sources">>), Absent, Absent, List(<<Source2, Source1>>)))
ChunkA == Json(Event(Str(<<"text_chunk">>), Absent, Absent, Str(<<"a">>)))
ChunkBC == Json(Event(Str(<<"text_chunk">>), Absent, Absent, Str(<<"b", "c">>)))
StreamEnd ==
    Json(Event(Str(<<"stream_end">>), Absent, Absent, HistoryDict(List(<<Message1>>))))
WorkflowStep == Json(Event(Str(<<"workflow_step">>), Absent, Absent, Str(<<"x">>)))
NoTag == Json(Event(Absent, Str(<<"z">>), Absent, List(<<Source2>>)))

\* What a body of SpecParse is made of.
StreamTokens ==
    {NL, SP, BAD, StreamStart, Sources1, Sources2, ChunkA, ChunkBC, StreamEnd,
     WorkflowStep, NoTag}

----------------------------------------------------------------------------
(* _parse_ndjson_stream *)

IsSpace(t) == t.tok \in {"nl", "sp"}

RECURSIVE LStrip(_)
LStrip(s) ==
    IF s = <<>> THEN s
    ELSE IF IsSpace(Head(s)) THEN LStrip(Tail(s)) ELSE s

RECURSIVE RStrip(_)
RStrip(s) ==
    IF s = <<>> THEN s
    ELSE IF IsSpace(s[Len(s)]) THEN RStrip(SubSeq(s, 1, Len(s) - 1)) ELSE s

\* str.strip(): leading and trailing whitespace, newlines included.
Strip(s) == RStrip(LStrip(s))

RECURSIVE Split(_)
\* str.split('\n'): the pieces between newlines; one empty piece for "".
Split(s) ==
    IF \E i \in 1..Len(s) : s[i] = NL
    THEN LET i == CHOOSE k \in 1..Len(s) :
                      s[k] = NL /\ \A j \in 1..(k - 1) : s[j] # NL
         IN  <<SubSeq(s, 1, i - 1)>> \o Split(SubSeq(s, i + 1, Len(s)))
    ELSE <<s>>

RECURSIVE Unsplit(_)
\* The text whose lines are `lines`.
Unsplit(lines) ==
    IF lines = <<>> THEN <<>>
    ELSE IF Len(lines) = 1 THEN lines[1]
    ELSE lines[1] \o <<NL>> \o Unsplit(Tail(lines))

DecodeError == [type |-> "JSONDecodeError"]

\* json.loads(line): whitespace around the document is allowed; anything but
\* exactly one JSON document is a JSONDecodeError.
JsonLoads(line) ==
    LET doc == Strip(line)
    IN  IF Len(doc) = 1 /\ doc[1].tok = "json" THEN doc[1].json ELSE DecodeError

\* `if not line: continue`
SkipLineNever(line) == FALSE

SkipLine(line) == line = <<>>

Raised(e) == [error |-> e]

EmptyAcc ==
    [error |-> "", response_chunks |-> <<>>, sources |-> List(<<>>),
     conversation_history |-> List(<<>>), conversation_id |-> Str(<<>>),
     run_id |-> Str(<<>>)]

OnStreamStart(acc, event) ==
    [acc EXCEPT !.conversation_id = Get(event.conversation_id, Str(<<>>)),
                !.run_id = Get(event.run_id, Str(<<>>))]

OnSourcesExtend(acc, event) ==
    [acc EXCEPT !.sources =
        IF Get(event.data, List(<<>>)).type = "list" /\ acc.sources.type = "list"
        THEN List(acc.sources.items \o Get(event.data, List(<<>>)).items)
        ELSE Get(event.data, List(<<>>))]

OnSources(acc, event) == [acc EXCEPT !.sources = Get(event.data, List(<<>>))]

OnTextChunkPrepend(acc, event) ==
    [acc EXCEPT !.response_chunks = <<Get(event.data, Str(<<>>))>> \o @]

OnTextChunk(acc, event) ==
    [acc EXCEPT !.response_chunks = Append(@, Get(event.data, Str(<<>>)))]

OnStreamEndLenient(acc, event) ==
    LET data == Get(event.data, HistoryDict(Absent))
    IN  IF data.type # "dict" THEN [acc EXCEPT !.conversation_history = List(<<>>)]
        ELSE [acc EXCEPT !.conversation_history =
                             Get(data.conversation_history, List(<<>>))]

\* event.get("data", {}).get("conversation_history", []): the second get is a
\* method of dict only.
OnStreamEnd(acc, event) ==
    LET data == Get(event.data, HistoryDict(Absent))
    IN  IF data.type # "dict" THEN [acc EXCEPT !.error = "AttributeError"]
        ELSE [acc EXCEPT !.conversation_history =
                             Get(data.conversation_history, List(<<>>))]

OnJsonDecodeErrorIgnore(acc) == acc

\* json.loads raises and nothing in the loop catches it.
OnJsonDecodeError(acc) == [acc EXCEPT !.error = "JSONDecodeError"]

\* One iteration of the loop over the lines.
ParseLine(acc, line) ==
    IF acc.error # "" THEN acc
    ELSE IF SkipLine(line) THEN acc
    ELSE LET event == JsonLoads(line)
         IN  IF event = DecodeError THEN OnJsonDecodeError(acc)
             ELSE IF event.type # "dict" THEN [acc EXCEPT !.error = "AttributeError"]
             ELSE IF event.event = Str(<<"stream_start">>) THEN OnStreamStart(acc, event)
             ELSE IF event.event = Str(<<"sources">>) THEN OnSources(acc, event)
             ELSE IF event.event = Str(<<"text_chunk">>) THEN OnTextChunk(acc, event)
             ELSE IF event.event = Str(<<"stream_end">>) THEN OnStreamEnd(acc, event)
             ELSE acc

RECURSIVE ParseLines(_, _)
ParseLines(acc, lines) ==
    IF lines = <<>> THEN acc
    ELSE ParseLines(ParseLine(acc, Head(lines)), Tail(lines))

RECURSIVE JoinWith(_, _)
JoinWith(sep, chunks) ==
    IF chunks = <<>> THEN <<>>
    ELSE IF Len(chunks) = 1 THEN chunks[1].text
    ELSE chunks[1].text \o sep \o JoinWith(sep, Tail(chunks))

\* "".join(response_chunks)
Join(chunks) == JoinWith(<<>>, chunks)

\* The loop over the lines and the dict built after it, or the exception raised.
FoldLines(lines) ==
    LET acc == ParseLines(EmptyAcc, lines)
    IN  IF acc.error # "" THEN Raised(acc.error)
        ELSE IF \E i \in 1..Len(acc.response_chunks) :
                    acc.response_chunks[i].type # "str"
        THEN Raised("TypeError")
        ELSE [error |-> "",
              conversation_id |-> acc.conversation_id,
              run_id |-> acc.run_id,
              response |-> Join(acc.response_chunks),
              sources |-> acc.sources,
              conversation_history |-> acc.conversation_history]

\* The returned dict, or the exception raised.
ParseNdjsonStream(ndjson_text) == FoldLines(Split(Strip(ndjson_text)))

----------------------------------------------------------------------------
(* SpecParse: a body arrives, then it is parsed *)

NotParsed == [error |-> "not parsed"]

NoHttp == [kind |-> "none"]
Pending == [kind |-> "pending"]
DefaultBaseUrl == "http://localhost:8001"

ClientIdle ==
    /\ base_url = DefaultBaseUrl
    /\ op = "none"
    /\ cpc = "idle"
    /\ net_calls = 0
    /\ http = NoHttp
    /\ outcome = Pending

NoResult == [kind |-> "none"]

CompareIdle ==
    /\ workflow_ids = <<>>
    /\ lpc = "done"
    /\ idx = 1
    /\ requests = <<>>
    /\ succeeded = <<>>
    /\ workflow_result = NoResult
    /\ results = <<>>
    /\ ranked = <<>>

NotCompared == [kind |-> "none"]

MetricsIdle ==
    /\ response_text = <<>>
    /\ mpc = "idle"
    /\ evaluations = <<>>
    /\ comparison = NotCompared

InitParse ==
    /\ body = <<>>
    /\ pc = "receiving"
    /\ result_data = NotParsed
    /\ ClientIdle
    /\ CompareIdle
    /\ MetricsIdle

ReceiveToken ==
    /\ pc = "receiving"
    /\ Len(body) < MaxTokens
    /\ \E t \in StreamTokens : body' = Append(body, t)
    /\ UNCHANGED <<pc, result_data, clientVars, compareVars, metricsVars>>

Parse ==
    /\ pc = "receiving"
    /\ result_data' = ParseNdjsonStream(body)
    /\ pc' = "parsed"
    /\ UNCHANGED <<body, clientVars, compareVars, metricsVars>>

NextParse == ReceiveToken \/ Parse

SpecParse == InitParse /\ [][NextParse]_vars

----------------------------------------------------------------------------
(* Claims about the stream parser, checked under SpecParse *)

IsEvent(t, tag) ==
    t.tok = "json" /\ t.json.type = "dict" /\ t.json.event = Str(<<tag>>)

RECURSIVE ConcatFragments(_)
\* f1 \o f2 \o ... \o fN for the text_chunk events of a body, in arrival order.
ConcatFragments(b) ==
    IF b = <<>> THEN <<>>
    ELSE (IF IsEvent(Head(b), "text_chunk")
          THEN Get(Head(b).json.data, Str(<<>>)).text ELSE <<>>)
         \o ConcatFragments(Tail(b))

Parsed == pc = "parsed" /\ result_data.error = ""

\* C1: the response text of an accepted body is the concatenation of the
\* fragments of its text_chunk events, in arrival order, nothing inserted,
\* dropped or duplicated; the empty text when there is no text_chunk event.
C1_ResponseIsConcatenation ==
    Parsed => result_data.response = ConcatFragments(body)

\* C1 witness: two fragments with an event of another kind between them.
C1_Witness ==
    /\ Parsed
    /\ \E i, j, k \in 1..Len(body) :
        /\ i < j /\ j < k
        /\ body[i] = ChunkBC /\ IsEvent(body[j], "sources") /\ body[k] = ChunkA
    /\ result_data.response = <<"b", "c", "a">>


LastSourcesIndex(b) ==
    CHOOSE i \in 1..Len(b) :
        /\ IsEvent(b[i], "sources")
        /\ \A j \in (i + 1)..Len(b) : ~IsEvent(b[j], "sources")

\* C2: with one or more sources events in the stream, the source list of the
\* result is the data of the last of them only, whatever comes between or
\* after; earlier payloads are neither kept nor merged.
C2_SourcesLastWins ==
    (Parsed /\ \E i \in 1..Len(body) : IsEvent(body[i], "sources"))
        => result_data.sources = Get(body[LastSourcesIndex(body)].json.data, List(<<>>))

\* C2 witness: two sources events with different payloads, another event
\* between them; the result holds the second payload.
C2_Witness ==
    /\ Parsed
    /\ \E i, j, k \in 1..Len(body) :
        /\ i < j /\ j < k
        /\ body[i] = Sources2 /\ IsEvent(body[j], "text_chunk") /\ body[k] = Sources1
    /\ result_data.sources = List(<<Source1>>)

\* The lines the loop of the parser iterates over.
LinesOf(b) == Split(Strip(b))

RemoveAt(seq, i) == SubSeq(seq, 1, i - 1) \o SubSeq(seq, i + 1, Len(seq))

RecognizedTags ==
    {Str(<<"stream_start">>), Str(<<"sources">>), Str(<<"text_chunk">>),
     Str(<<"stream_end">>)}

NotValidJson(line) == line # <<>> /\ JsonLoads(line) = DecodeError

UnrecognizedEvent(line) ==
    /\ line # <<>>
    /\ JsonLoads(line) # DecodeError
    /\ JsonLoads(line).type = "dict"
    /\ JsonLoads(line).event \notin RecognizedTags

\* C3 as stated: a line that is not valid JSON, or an event whose tag is
\* missing or unrecognized, is ignored: the outcome is that of the same lines
\* without it.
C3_Original ==
    pc = "parsed" =>
        \A i \in 1..Len(LinesOf(body)) :
            (NotValidJson(LinesOf(body)[i]) \/ UnrecognizedEvent(LinesOf(body)[i]))
                => result_data = FoldLines(RemoveAt(LinesOf(body), i))

\* C3 amended: an event whose tag is missing or unrecognized is ignored (the
\* outcome is that of the same lines without it), while a non-empty line that
\* is not valid JSON makes the parse fail with the JSON decode error.
C3_UnrecognizedIgnoredInvalidRaises ==
    pc = "parsed" =>
        \A i \in 1..Len(LinesOf(body)) :
            /\ UnrecognizedEvent(LinesOf(body)[i])
                => result_data = FoldLines(RemoveAt(LinesOf(body), i))
            /\ NotValidJson(LinesOf(body)[i])
                => result_data = Raised("JSONDecodeError")

\* C3 witness: an accepted body with an unrecognized event and a missing tag
\* among recognized events.
C3_Witness ==
    /\ Parsed
    /\ \E i, j \in 1..Len(body) : body[i] = WorkflowStep /\ body[j] = NoTag
    /\ result_data.response = <<"a">>
    /\ result_data.sources = List(<<>>)

RemoveBlank(lines) == SelectSeq(lines, LAMBDA l : l # <<>>)

----------------------------------------------------------------------------
(* The connector's four operations *)

\* Longest run_workflow response body of SpecClient, in event lines.
MaxEvents == 2

IntValue == [type |-> "int"]

StartNoIds == Json(Event(Str(<<"stream_start">>), Absent, Absent, Absent))
StartNullId == Json(Event(Str(<<"stream_start">>), Null, Str(<<"r">>), Absent))
SourcesNoData == Json(Event(Str(<<"sources">>), Absent, Absent, Absent))
SourceNoTitle == [id |-> IntValue, title |-> Absent, url |-> Absent]
SourcesBadRecord ==
    Json(Event(Str(<<"sources">>), Absent, Absent, List(<<Source1, SourceNoTitle>>)))
SourcesNull == Json(Event(Str(<<"sources">>), Absent, Absent, Null))
ChunkNoData == Json(Event(Str(<<"text_chunk">>), Absent, Absent, Absent))
ChunkNull == Json(Event(Str(<<"text_chunk">>), Absent, Absent, Null))
EndNoData == Json(Event(Str(<<"stream_end">>), Absent, Absent, Absent))
EndNoHistory == Json(Event(Str(<<"stream_end">>), Absent, Absent, HistoryDict(Absent)))
EndNotObject == Json(Event(Str(<<"stream_end">>), Absent, Absent, Str(<<"x">>)))

\* The event lines of a run_workflow response body in SpecClient: recognized
\* events, their fields well-formed, absent or malformed.
FieldEvents ==
    {StreamStart, Sources2, ChunkA, StreamEnd,
     StartNoIds, StartNullId, SourcesNoData, SourcesBadRecord, SourcesNull,
     ChunkNoData, ChunkNull, EndNoData, EndNoHistory, EndNotObject}

RECURSIVE EventLines(_)
\* The sequences of at most n event lines.
EventLines(n) ==
    IF n = 0 THEN {<<>>}
    ELSE EventLines(n - 1)
         \cup {Append(ls, <<ev>>) : ls \in EventLines(n - 1), ev \in FieldEvents}

\* NDJSON: every line ends with a newline.
RunBodies == {Unsplit(ls) \o <<NL>> : ls \in EventLines(MaxEvents) \ {<<>>}} \cup {<<>>}

Metadata1 ==
    [type |-> "dict", workflow_id |-> Str(<<"w">>), name |-> Str(<<"n">>),
     description |-> Str(<<"d">>), version |-> Str(<<"1">>), author |-> Absent,
     tags |-> Absent]
MetadataNoVersion == [Metadata1 EXCEPT !.version = Absent]

MetadataBodies == {<<Json(Metadata1), NL>>, <<Json(MetadataNoVersion)>>, <<BAD>>}
ListBodies ==
    {<<Json(List(<<Metadata1, Metadata1>>))>>, <<Json(List(<<>>))>>,
     <<Json(List(<<MetadataNoVersion>>))>>, <<BAD>>}

Operations == {"run_workflow", "get_workflow_metadata", "list_workflows", "health_check"}

BodiesOf(o) ==
    IF o = "run_workflow" THEN RunBodies
    ELSE IF o = "get_workflow_metadata" THEN MetadataBodies
    ELSE IF o = "list_workflows" THEN ListBodies
    ELSE {<<>>, <<BAD>>}

Statuses == {200, 204, 302, 404, 500}

\* What the awaited client.post / client.get raises instead of returning:
\* subclasses of httpx.RequestError, and an exception that is none.
SendErrors ==
    {[kind |-> "error", exc |-> "ConnectError", request_error |-> TRUE],
     [kind |-> "error", exc |-> "ReadTimeout", request_error |-> TRUE],
     [kind |-> "error", exc |-> "ReadError", request_error |-> TRUE],
     [kind |-> "error", exc |-> "CancelledError", request_error |-> FALSE]}

Response(status, text) == [kind |-> "response", status_code |-> status, text |-> text]

BaseUrls == {DefaultBaseUrl, "http://lex-llm:9000"}

Return(v) == [kind |-> "return", value |-> v]
Raise(exc, message) == [kind |-> "raise", exc |-> exc, message |-> message]
Retry == [kind |-> "retry"]
NoMessage == [text |-> ""]

\* response.raise_for_status(): HTTPStatusError unless the status is 2xx.
IsSuccessAlways(status) == TRUE

IsSuccess(status) == 200 <= status /\ status <= 299

ValidSource(s) ==
    s.id.type \in {"int", "str"} /\ s.title.type = "str" /\ s.url.type = "str"

ValidMessage(m) == m.role.type = "str" /\ m.content.type = "str"

\* WorkflowResult(**result_data): the model's field types are validated.
WorkflowResult(data) ==
    IF /\ data.conversation_id.type = "str"
       /\ data.run_id.type = "str"
       /\ data.sources.type = "list"
       /\ \A i \in 1..Len(data.sources.items) : ValidSource(data.sources.items[i])
       /\ data.conversation_history.type = "list"
       /\ \A i \in 1..Len(data.conversation_history.items) :
              ValidMessage(data.conversation_history.items[i])
    THEN Return([conversation_id |-> data.conversation_id.text,
                 run_id |-> data.run_id.text,
                 response |-> data.response,
                 sources |-> data.sources.items,
                 conversation_history |-> data.conversation_history.items])
    ELSE Raise("ValidationError", NoMessage)

ValidMetadata(d) ==
    /\ d.type = "dict"
    /\ d.workflow_id.type = "str" /\ d.name.type = "str"
    /\ d.description.type = "str" /\ d.version.type = "str"
    /\ d.author.type \in {"absent", "NoneType", "str"}
    /\ d.tags.type \in {"absent", "NoneType", "list"}

\* `except httpx.RequestError` of run_workflow, get_workflow_metadata and
\* list_workflows.
OnRequestErrorRetry(url, e) == Retry

OnRequestError(url, e) ==
    Raise("ConnectionError",
          [text |-> "Failed to connect to lex-llm at", base_url |-> url,
           cause |-> e.exc])

\* `except httpx.HTTPStatusError` of run_workflow.
OnHTTPStatusError(response) ==
    Raise("RuntimeError",
          [text |-> "Workflow execution failed", body |-> response.text])

RunWorkflow(url, h) ==
    IF h.kind = "error"
    THEN IF h.request_error THEN OnRequestError(url, h) ELSE Raise(h.exc, NoMessage)
    ELSE IF ~IsSuccess(h.status_code) THEN OnHTTPStatusError(h)
    ELSE LET data == ParseNdjsonStream(h.text)
         IN  IF data.error # "" THEN Raise(data.error, NoMessage)
             ELSE WorkflowResult(data)

GetWorkflowMetadata(url, h) ==
    IF h.kind = "error"
    THEN IF h.request_error THEN OnRequestError(url, h) ELSE Raise(h.exc, NoMessage)
    ELSE IF ~IsSuccess(h.status_code) THEN Raise("HTTPStatusError", NoMessage)
    ELSE LET doc == JsonLoads(h.text)
         IN  IF doc = DecodeError THEN Raise("JSONDecodeError", NoMessage)
             ELSE IF ValidMetadata(doc) THEN Return(doc)
             ELSE Raise("ValidationError", NoMessage)

ListWorkflows(url, h) ==
    IF h.kind = "error"
    THEN IF h.request_error THEN OnRequestError(url, h) ELSE Raise(h.exc, NoMessage)
    ELSE IF ~IsSuccess(h.status_code) THEN Raise("HTTPStatusError", NoMessage)
    ELSE LET doc == JsonLoads(h.text)
         IN  IF doc = DecodeError THEN Raise("JSONDecodeError", NoMessage)
             ELSE IF doc.type # "list" THEN Raise("TypeError", NoMessage)
             ELSE IF \A i \in 1..Len(doc.items) : ValidMetadata(doc.items[i])
             THEN Return(doc.items)
             ELSE Raise("ValidationError", NoMessage)

HealthCheckExceptRequestError(h) ==
    IF h.kind = "error"
    THEN IF h.request_error THEN Return(FALSE) ELSE Raise(h.exc, NoMessage)
    ELSE Return(h.status_code = 200)

\* The bare `except:` catches whatever the GET raises.
HealthCheck(h) ==
    IF h.kind = "error" THEN Return(FALSE) ELSE Return(h.status_code = 200)

\* What operation o does with what its one awaited call came back with.
Handle(o, url, h) ==
    IF o = "run_workflow" THEN RunWorkflow(url, h)
    ELSE IF o = "get_workflow_metadata" THEN GetWorkflowMetadata(url, h)
    ELSE IF o = "list_workflows" THEN ListWorkflows(url, h)
    ELSE HealthCheck(h)

InitClient ==
    /\ body = <<>>
    /\ pc = "receiving"
    /\ result_data = NotParsed
    /\ base_url \in BaseUrls
    /\ op = "none"
    /\ cpc = "idle"
    /\ net_calls = 0
    /\ http = NoHttp
    /\ outcome = Pending
    /\ CompareIdle
    /\ MetricsIdle

\* A caller invokes one of the four operations.
Invoke ==
    /\ cpc \in {"idle", "finished"}
    /\ \E o \in Operations : op' = o
    /\ cpc' = "calling"
    /\ net_calls' = 0
    /\ http' = NoHttp
    /\ outcome' = Pending
    /\ UNCHANGED <<metricsVars, compareVars, parseVars, base_url>>

\* The awaited client.post / client.get raises.
SendFails ==
    /\ cpc = "calling"
    /\ net_calls' = net_calls + 1
    /\ \E e \in SendErrors : http' = e
    /\ cpc' = "responded"
    /\ UNCHANGED <<metricsVars, compareVars, parseVars, base_url, op, outcome>>

\* The awaited client.post / client.get returns a response, wholly received.
SendResponds ==
    /\ cpc = "calling"
    /\ net_calls' = net_calls + 1
    /\ \E st \in Statuses, text \in BodiesOf(op) : http' = Response(st, text)
    /\ cpc' = "responded"
    /\ UNCHANGED <<metricsVars, compareVars, parseVars, base_url, op, outcome>>

\* The rest of the operation's body: it returns or raises.
Finish ==
    /\ cpc = "responded"
    /\ LET r == Handle(op, base_url, http)
       IN  IF r = Retry
           THEN cpc' = "calling" /\ outcome' = Pending
           ELSE cpc' = "finished" /\ outcome' = r
    /\ UNCHANGED <<metricsVars, compareVars, parseVars, base_url, op, net_calls, http>>

NextClient == Invoke \/ SendFails \/ SendResponds \/ Finish

SpecClient == InitClient /\ [][NextClient]_vars


----------------------------------------------------------------------------
(* Claims about the connector's operations, checked under SpecClient *)

Done(o) == cpc = "finished" /\ op = o

SuccessResponse == http.kind = "response" /\ http.status_code \in 200..299
ErrorResponse == http.kind = "response" /\ http.status_code \notin 200..299
TransportFailure == http.kind = "error" /\ http.request_error

\* C4: run_workflow turns a transport failure into a ConnectionError naming
\* the target host, a non-success status into a RuntimeError carrying the
\* response body, and returns a WorkflowResult only for a success response.
C4_RunWorkflowClassification ==
    Done("run_workflow") =>
        /\ TransportFailure =>
              /\ outcome.kind = "raise" /\ outcome.exc = "ConnectionError"
              /\ outcome.message.base_url = base_url
        /\ ErrorResponse =>
              /\ outcome.kind = "raise" /\ outcome.exc = "RuntimeError"
              /\ outcome.message.body = http.text
        /\ outcome.kind = "return" => SuccessResponse

\* C4 witness: a 500 response whose body would decode to a result, were it
\* parsed; the RuntimeError carries it.
C4_Witness ==
    /\ Done("run_workflow")
    /\ http = Response(500, <<ChunkA, NL, Sources2, NL>>)
    /\ outcome.kind = "raise" /\ outcome.exc = "RuntimeError"
    /\ outcome.message.body = <<ChunkA, NL, Sources2, NL>>
    /\ base_url # DefaultBaseUrl

\* C5: health_check always returns a boolean, and returns true exactly when
\* a response with status code 200 was received.
C5_HealthCheckTotal ==
    Done("health_check") =>
        /\ outcome.kind = "return"
        /\ outcome.value \in BOOLEAN
        /\ outcome.value <=> (http.kind = "response" /\ http.status_code = 200)

\* C5 witness: the GET raised something that is no httpx.RequestError and the
\* operation returned false.
C5_Witness ==
    /\ Done("health_check")
    /\ http.kind = "error" /\ ~http.request_error
    /\ outcome = Return(FALSE)

\* C7: no operation sends a second request; when its one attempt fails, the
\* operation ends at once with an error, or with false for health_check.
C7_NoRetries ==
    /\ net_calls <= 1
    /\ cpc = "finished" =>
          /\ net_calls = 1
          /\ (http.kind = "error" \/ ErrorResponse) =>
                IF op = "health_check" THEN outcome = Return(FALSE)
                ELSE outcome.kind = "raise"

\* C7 witness: list_workflows ended with a ConnectionError after one call.
C7_Witness ==
    /\ Done("list_workflows")
    /\ TransportFailure
    /\ net_calls = 1
    /\ outcome.kind = "raise" /\ outcome.exc = "ConnectionError"


\* The events of kind `tag` in a body, in arrival order.
EventsOf(b, tag) == SelectSeq(b, LAMBDA t : IsEvent(t, tag))

Last(seq) == seq[Len(seq)]

IsStrOrAbsent(v) == v.type \in {"str", "absent"}

ValidSourceList(v) ==
    v.type = "list" /\ \A i \in 1..Len(v.items) : ValidSource(v.items[i])

\* Every field the parser reads from the events of b is well-formed or absent.
FieldsAbsentOrWellFormed(b) ==
    /\ \A i \in 1..Len(EventsOf(b, "stream_start")) :
          /\ IsStrOrAbsent(EventsOf(b, "stream_start")[i].json.conversation_id)
          /\ IsStrOrAbsent(EventsOf(b, "stream_start")[i].json.run_id)
    /\ \A i \in 1..Len(EventsOf(b, "sources")) :
          \/ EventsOf(b, "sources")[i].json.data = Absent
          \/ ValidSourceList(EventsOf(b, "sources")[i].json.data)
    /\ \A i \in 1..Len(EventsOf(b, "text_chunk")) :
          IsStrOrAbsent(EventsOf(b, "text_chunk")[i].json.data)
    /\ \A i \in 1..Len(EventsOf(b, "stream_end")) :
          EventsOf(b, "stream_end")[i].json.data.type \in {"dict", "absent"}

\* A malformed value reaches the end of the decoding: in any text_chunk or
\* stream_end, or in the last stream_start or the last sources event.
MalformedFieldInEffect(b) ==
    \/ \E i \in 1..Len(EventsOf(b, "text_chunk")) :
          ~IsStrOrAbsent(EventsOf(b, "text_chunk")[i].json.data)
    \/ \E i \in 1..Len(EventsOf(b, "stream_end")) :
          EventsOf(b, "stream_end")[i].json.data.type \notin {"dict", "absent"}
    \/ /\ EventsOf(b, "stream_start") # <<>>
       /\ \/ ~IsStrOrAbsent(Last(EventsOf(b, "stream_start")).json.conversation_id)
          \/ ~IsStrOrAbsent(Last(EventsOf(b, "stream_start")).json.run_id)
    \/ /\ EventsOf(b, "sources") # <<>>
       /\ Last(EventsOf(b, "sources")).json.data # Absent
       /\ ~ValidSourceList(Last(EventsOf(b, "sources")).json.data)

\* C8 as stated: whatever is malformed in the fields of the recognized events
\* of a successful body, run_workflow still yields a WorkflowResult.
C8_Original ==
    (Done("run_workflow") /\ SuccessResponse) => outcome.kind = "return"

\* C8 amended: absent fields are replaced by the empty string / empty list
\* and the decoding yields a WorkflowResult; a field that is present but
\* malformed is not replaced, and when it reaches the end of the decoding
\* run_workflow fails instead of returning a result.
C8_AbsentDefaultsMalformedFails ==
    (Done("run_workflow") /\ SuccessResponse) =>
        /\ FieldsAbsentOrWellFormed(http.text) =>
              /\ outcome.kind = "return"
              /\ outcome.value.response = ConcatFragments(http.text)
              /\ EventsOf(http.text, "stream_start") # <<>> =>
                    /\ outcome.value.conversation_id =
                          Get(Last(EventsOf(http.text, "stream_start")).json.conversation_id,
                              Str(<<>>)).text
                    /\ outcome.value.run_id =
                          Get(Last(EventsOf(http.text, "stream_start")).json.run_id,
                              Str(<<>>)).text
              /\ EventsOf(http.text, "sources") # <<>> =>
                    outcome.value.sources =
                        Get(Last(EventsOf(http.text, "sources")).json.data, List(<<>>)).items
              /\ EventsOf(http.text, "stream_end") # <<>> =>
                    outcome.value.conversation_history =
                        Get(Get(Last(EventsOf(http.text, "stream_end")).json.data,
                                HistoryDict(Absent)).conversation_history,
                            List(<<>>)).items
        /\ MalformedFieldInEffect(http.text) =>
              /\ outcome.kind = "raise"
              /\ outcome.exc \in {"ValidationError", "TypeError", "AttributeError"}

\* C8 witness: a stream_start without ids and a stream_end without data gave
\* a WorkflowResult with the defaults in their place.
C8_Witness ==
    /\ Done("run_workflow")
    /\ http = Response(200, <<StartNoIds, NL, EndNoData, NL>>)
    /\ outcome.kind = "return"
    /\ outcome.value.conversation_id = <<>>
    /\ outcome.value.conversation_history = <<>>


----------------------------------------------------------------------------
(* The metrics calculator.  Text is a sequence of characters here; a ratio *)
(* is kept exact, as numerator and denominator.                            *)

Rat(n, d) == [num |-> n, den |-> d]
Zero == Rat(0, 1)
RatEq(a, b) == a.num * b.den = b.num * a.den
RatLess(a, b) == a.num * b.den < b.num * a.den
RatAdd(a, b) == Rat(a.num * b.den + b.num * a.den, a.den * b.den)

LowerChar(c) ==
    IF c = "A" THEN "a" ELSE IF c = "E" THEN "e" ELSE IF c = "I" THEN "i"
    ELSE IF c = "K" THEN "k" ELSE c

\* str.lower()
Lower(text) == [i \in 1..Len(text) |-> LowerChar(text[i])]

\* \w of the regular expressions: letters, digits and the underscore.
NonWordChars == {" ", ".", "!", "?", "[", "]", ",", "\n"}
IsWordChar(c) == c \notin NonWordChars

RECURSIVE WordsFrom(_, _)
WordsFrom(text, cur) ==
    IF text = <<>> THEN (IF cur = <<>> THEN <<>> ELSE <<cur>>)
    ELSE IF IsWordChar(Head(text)) THEN WordsFrom(Tail(text), Append(cur, Head(text)))
    ELSE (IF cur = <<>> THEN <<>> ELSE <<cur>>) \o WordsFrom(Tail(text), <<>>)

\* re.findall(r'\w+', text): the maximal runs of word characters, in order.
FindAllWords(text) == WordsFrom(text, <<>>)

ToSet(seq) == {seq[i] : i \in 1..Len(seq)}

RECURSIVE CountLiteral(_, _)
\* len(re.findall(literal, text)): occurrences, left to right, not overlapping.
CountLiteral(pat, text) ==
    IF Len(text) < Len(pat) THEN 0
    ELSE IF SubSeq(text, 1, Len(pat)) = pat
    THEN 1 + CountLiteral(pat, SubSeq(text, Len(pat) + 1, Len(text)))
    ELSE CountLiteral(pat, Tail(text))

\* Where the shortest match of \[.*?\] that starts at the head of text ends,
\* or 0: the first "]" with no newline before it.
BracketSpanEnd(text) ==
    IF text = <<>> \/ Head(text) # "[" THEN 0
    ELSE IF \E j \in 2..Len(text) :
                text[j] = "]" /\ \A k \in 2..(j - 1) : text[k] \notin {"]", "\n"}
    THEN CHOOSE j \in 2..Len(text) :
                text[j] = "]" /\ \A k \in 2..(j - 1) : text[k] \notin {"]", "\n"}
    ELSE 0

RECURSIVE CountBracketSpans(_)
\* len(re.findall(r'\[.*?\]', text))
CountBracketSpans(text) ==
    IF text = <<>> THEN 0
    ELSE IF BracketSpanEnd(text) > 0
    THEN 1 + CountBracketSpans(SubSeq(text, BracketSpanEnd(text) + 1, Len(text)))
    ELSE CountBracketSpans(Tail(text))

Ifoelge == <<"i", "f", "ø", "l", "g", "e">>
Artikel == <<"a", "r", "t", "i", "k", "e", "l">>
Kilde == <<"k", "i", "l", "d", "e">>

RECURSIVE SumSeq(_)
SumSeq(seq) == IF seq = <<>> THEN 0 ELSE Head(seq) + SumSeq(Tail(seq))

RECURSIVE JoinTitles(_)
\* ' '.join(s.get('title', '') for s in sources)
JoinTitles(sources) ==
    IF sources = <<>> THEN <<>>
    ELSE IF Len(sources) = 1 THEN Get(sources[1].title, Str(<<>>)).text
    ELSE Get(sources[1].title, Str(<<>>)).text \o <<" ">> \o JoinTitles(Tail(sources))

CalculateRetrievalMetrics(sources) ==
    IF sources = <<>>
    THEN [num_sources |-> 0, avg_source_length |-> Zero, source_diversity |-> Zero]
    ELSE LET words == FindAllWords(Lower(JoinTitles(sources)))
         IN  [num_sources |-> Len(sources),
              avg_source_length |->
                  Rat(SumSeq([i \in 1..Len(sources) |->
                                 Len(Get(sources[i].title, Str(<<>>)).text)]),
                      Len(sources)),
              source_diversity |->
                  IF words # <<>> THEN Rat(Cardinality(ToSet(words)), Len(words))
                  ELSE Zero]

RECURSIVE SourceWords(_)
SourceWords(sources) ==
    IF sources = <<>> THEN {}
    ELSE ToSet(FindAllWords(Lower(Get(Head(sources).title, Str(<<>>)).text)))
         \cup SourceWords(Tail(sources))

OverlapOverSourceWords(response_words, source_words) ==
    IF response_words # {} /\ source_words # {}
    THEN Rat(Cardinality(response_words \cap source_words), Cardinality(source_words))
    ELSE Zero

\* `if response_words and source_words: overlap = ... else: overlap = 0.0`
Overlap(response_words, source_words) ==
    IF response_words # {} /\ source_words # {}
    THEN Rat(Cardinality(response_words \cap source_words), Cardinality(response_words))
    ELSE Zero

CalculateAnswerMetrics(response, sources) ==
    LET lower == Lower(response)
        response_words == ToSet(FindAllWords(lower))
        source_words == SourceWords(sources)
    IN  [answer_length |-> Len(response),
         citation_count |->
             CountBracketSpans(lower) + CountLiteral(Ifoelge, lower)
             + CountLiteral(Artikel, lower) + CountLiteral(Kilde, lower),
         answer_source_overlap |-> Overlap(response_words, source_words)]

Contains(pat, text) ==
    \E i \in 1..(Len(text) - Len(pat) + 1) : SubSeq(text, i, i + Len(pat) - 1) = pat

SearchCitationWithoutKilde(text) ==
    \/ \E i \in 1..Len(text) : BracketSpanEnd(SubSeq(text, i, Len(text))) > 0
    \/ Contains(Ifoelge, text)
    \/ Contains(Artikel, text)

\* re.search(r'\[.*?\]|ifølge|artikel|kilde', text) finds a match.
SearchCitation(text) ==
    \/ \E i \in 1..Len(text) : BracketSpanEnd(SubSeq(text, i, Len(text))) > 0
    \/ Contains(Ifoelge, text)
    \/ Contains(Artikel, text)
    \/ Contains(Kilde, text)

RECURSIVE SentencesFrom(_, _)
SentencesFrom(text, cur) ==
    IF text = <<>> THEN <<cur>>
    ELSE IF Head(text) \in {".", "!", "?"}
    THEN IF Len(text) > 1 /\ text[2] \in {".", "!", "?"}
         THEN SentencesFrom(Tail(text), cur)
         ELSE <<cur>> \o SentencesFrom(Tail(text), <<>>)
    ELSE SentencesFrom(Tail(text), Append(cur, Head(text)))

\* re.split(r'[.!?]+', response)
SplitSentences(text) == SentencesFrom(text, <<>>)

ClaimWords ==
    {<<"e", "r">>, <<"v", "a", "r">>, <<"h", "a", "r">>,
     <<"h", "a", "v", "d", "e">>, <<"b", "l", "e", "v">>,
     <<"b", "l", "i", "v", "e", "r">>, <<"k", "a", "n">>,
     <<"s", "k", "a", "l">>, <<"v", "i", "l">>}

CalculateFaithfulnessMetrics(response, sources) ==
    LET sentences == SplitSentences(response)
    IN  [has_citations |-> SearchCitation(Lower(response)),
         claims_count |->
             Cardinality({i \in 1..Len(sentences) :
                 ToSet(FindAllWords(Lower(sentences[i]))) \cap ClaimWords # {}})]

EvaluateResponse(query, workflow_id, response, sources) ==
    [query |-> query,
     workflow_id |-> workflow_id,
     retrieval |-> CalculateRetrievalMetrics(sources),
     answer |-> CalculateAnswerMetrics(response, sources),
     faithfulness |-> CalculateFaithfulnessMetrics(response, sources),
     response |-> response,
     sources |-> sources]


----------------------------------------------------------------------------
(* compare_workflows_on_query: the loop over the identifiers, the ranking *)

\* Most identifiers in one comparison; identifier i is the i-th known workflow.
MaxWorkflows == 3

Query == <<"q", "?">>

SourceAbCd ==
    [id |-> IntValue, title |-> Str(<<"a", "b", " ", "c", "d">>), url |-> Str(<<"u">>)]
SourceCdEf ==
    [id |-> Str(<<"x">>), title |-> Str(<<"c", "d", " ", "e", "f">>), url |-> Str(<<"v">>)]

TextChunk(text) == Json(Event(Str(<<"text_chunk">>), Absent, Absent, Str(text)))
SourcesEvent(items) == Json(Event(Str(<<"sources">>), Absent, Absent, List(items)))

\* Two sources, "ab [1]" in two fragments.
BodyBracket ==
    <<SourcesEvent(<<SourceAbCd, SourceCdEf>>), NL, TextChunk(<<"a", "b", " ">>), NL,
      TextChunk(<<"[", "1", "]">>), NL>>
\* Two sources, "Kilde cd".
BodyKilde ==
    <<SourcesEvent(<<SourceAbCd, SourceCdEf>>), NL,
      TextChunk(<<"K", "i", "l", "d", "e", " ", "c", "d">>), NL>>
\* One source, "Ef er.".
BodyPlain ==
    <<StreamStart, NL, SourcesEvent(<<SourceAbCd>>), NL,
      TextChunk(<<"E", "f", " ", "e", "r", ".">>), NL>>
\* No source, "kilde".
BodyNoSources == <<TextChunk(Kilde), NL>>

\* What the POST of one comparison request comes back with.
CompareHttp ==
    {[kind |-> "error", exc |-> "ConnectError", request_error |-> TRUE],
     Response(500, <<BAD>>),
     Response(200, <<BAD, NL>>),
     Response(200, BodyBracket),
     Response(200, BodyKilde),
     Response(200, BodyPlain),
     Response(200, BodyNoSources)}

\* s.model_dump() of a Source
ModelDump(s) == [id |-> s.id, title |-> s.title, url |-> s.url]

\* The `except Exception` is inside the loop: the next identifier follows.
AbortAfterFailure(i, n) == n + 1

NextAfterFailure(i, n) == i + 1

\* score = num_sources * 0.2 + source_diversity * 0.2 + citation_count * 0.3
\*         + answer_source_overlap * 0.3, exactly.
Score(result) ==
    LET n == result.retrieval.num_sources
        d == result.retrieval.source_diversity
        c == result.answer.citation_count
        o == result.answer.answer_source_overlap
    IN  Rat(2 * n * d.den * o.den + 2 * d.num * o.den + 3 * c * d.den * o.den
            + 3 * o.num * d.den,
            10 * d.den * o.den)

InsertBeforeEqual(sorted, x) ==
    LET k == Cardinality({i \in 1..Len(sorted) : RatLess(x.score, sorted[i].score)})
    IN  SubSeq(sorted, 1, k) \o <<x>> \o SubSeq(sorted, k + 1, Len(sorted))

\* Where list.sort(key=..., reverse=True) leaves x among the entries before
\* it: after every entry whose score is not smaller.
InsertDesc(sorted, x) ==
    LET k == Cardinality({i \in 1..Len(sorted) : ~RatLess(sorted[i].score, x.score)})
    IN  SubSeq(sorted, 1, k) \o <<x>> \o SubSeq(sorted, k + 1, Len(sorted))

RECURSIVE SortByScoreDesc(_)
\* ranked.sort(key=lambda x: x[1], reverse=True)
SortByScoreDesc(entries) ==
    IF entries = <<>> THEN <<>>
    ELSE InsertDesc(SortByScoreDesc(SubSeq(entries, 1, Len(entries) - 1)),
                    entries[Len(entries)])

Ranking(rs) ==
    SortByScoreDesc([i \in 1..Len(rs) |->
                        [workflow_id |-> rs[i].workflow_id, score |-> Score(rs[i])]])

\* The lists of at most n distinct identifiers.
DistinctLists(n) ==
    {l \in UNION {[1..k -> 1..MaxWorkflows] : k \in 0..n} :
        \A i, j \in 1..Len(l) : i < j => l[i] # l[j]}

InitCompare ==
    /\ body = <<>>
    /\ pc = "receiving"
    /\ result_data = NotParsed
    /\ ClientIdle
    /\ workflow_ids \in DistinctLists(MaxWorkflows)
    /\ lpc = "loop"
    /\ idx = 1
    /\ requests = <<>>
    /\ succeeded = <<>>
    /\ workflow_result = NoResult
    /\ results = <<>>
    /\ ranked = <<>>
    /\ MetricsIdle

\* The loop takes the next identifier and awaits connector.run_workflow.
StartRequest ==
    /\ lpc = "loop"
    /\ idx <= Len(workflow_ids)
    /\ requests' = Append(requests,
                          [workflow_id |-> workflow_ids[idx], user_input |-> Query,
                           conversation_id |-> <<"compare-", workflow_ids[idx]>>])
    /\ lpc' = "awaiting"
    /\ UNCHANGED <<metricsVars, parseVars, clientVars, workflow_ids, idx, succeeded,
                   workflow_result, results, ranked>>

\* run_workflow raises; the except clause prints and the loop goes on.
RequestRaises ==
    /\ lpc = "awaiting"
    /\ \E h \in CompareHttp : RunWorkflow(base_url, h).kind = "raise"
    /\ succeeded' = Append(succeeded, FALSE)
    /\ idx' = NextAfterFailure(idx, Len(workflow_ids))
    /\ lpc' = "loop"
    /\ UNCHANGED <<metricsVars, parseVars, clientVars, workflow_ids, requests, workflow_result,
                   results, ranked>>

\* run_workflow returns a WorkflowResult.
RequestReturns ==
    /\ lpc = "awaiting"
    /\ \E h \in CompareHttp :
          /\ RunWorkflow(base_url, h).kind = "return"
          /\ workflow_result' = RunWorkflow(base_url, h)
    /\ lpc' = "evaluating"
    /\ UNCHANGED <<metricsVars, parseVars, clientVars, workflow_ids, idx, requests, succeeded,
                   results, ranked>>

\* The result is evaluated and the record appended.
Evaluate ==
    /\ lpc = "evaluating"
    /\ results' = Append(results,
           EvaluateResponse(Query, workflow_ids[idx], workflow_result.value.response,
               [i \in 1..Len(workflow_result.value.sources) |->
                   ModelDump(workflow_result.value.sources[i])]))
    /\ succeeded' = Append(succeeded, TRUE)
    /\ workflow_result' = NoResult
    /\ idx' = idx + 1
    /\ lpc' = "loop"
    /\ UNCHANGED <<metricsVars, parseVars, clientVars, workflow_ids, requests, ranked>>

\* After the loop: the ranking, when there is more than one result.
Rank ==
    /\ lpc = "loop"
    /\ idx > Len(workflow_ids)
    /\ ranked' = IF Len(results) > 1 THEN Ranking(results) ELSE <<>>
    /\ lpc' = "done"
    /\ UNCHANGED <<metricsVars, parseVars, clientVars, workflow_ids, idx, requests, succeeded,
                   workflow_result, results>>

NextCompare == StartRequest \/ RequestRaises \/ RequestReturns \/ Evaluate \/ Rank

SpecCompare == InitCompare /\ [][NextCompare]_vars


----------------------------------------------------------------------------
(* Claims about the comparison script, checked under SpecCompare *)

RequestedIds == [i \in 1..Len(requests) |-> requests[i].workflow_id]
ResultIds == [i \in 1..Len(results) |-> results[i].workflow_id]

RECURSIVE IdsWhere(_, _)
\* The identifiers whose flag is set, in the order of the list.
IdsWhere(ids, flags) ==
    IF flags = <<>> \/ ids = <<>> THEN <<>>
    ELSE (IF Head(flags) THEN <<Head(ids)>> ELSE <<>>)
         \o IdsWhere(Tail(ids), Tail(flags))

\* C6: one request per identifier, in list order, each started only after
\* the previous identifier is finished; a failure does not stop the loop;
\* at the end every identifier was requested and the results are the records
\* of the identifiers that succeeded, in their original order.
C6_SequentialIsolatedLoop ==
    /\ RequestedIds = SubSeq(workflow_ids, 1, Len(requests))
    /\ Len(requests) - Len(succeeded) = (IF lpc \in {"awaiting", "evaluating"} THEN 1 ELSE 0)
    /\ lpc = "done" =>
          /\ RequestedIds = workflow_ids
          /\ Len(succeeded) = Len(workflow_ids)
          /\ ResultIds = IdsWhere(workflow_ids, succeeded)

\* C6 witness: three identifiers, the second failed, the other two are in
\* the results.
C6_Witness ==
    /\ lpc = "done"
    /\ Len(workflow_ids) = 3
    /\ workflow_ids[1] > workflow_ids[3]
    /\ succeeded = <<TRUE, FALSE, TRUE>>
    /\ Len(requests) = 3
    /\ ResultIds = <<workflow_ids[1], workflow_ids[3]>>

\* 0.2 n + 0.2 d + 0.3 c + 0.3 o, term by term.
WeightedSum(r) ==
    RatAdd(RatAdd(Rat(2 * r.retrieval.num_sources, 10),
                  Rat(2 * r.retrieval.source_diversity.num,
                      10 * r.retrieval.source_diversity.den)),
           RatAdd(Rat(3 * r.answer.citation_count, 10),
                  Rat(3 * r.answer.answer_source_overlap.num,
                      10 * r.answer.answer_source_overlap.den)))

PositionIn(rs, w) == CHOOSE k \in 1..Len(rs) : rs[k].workflow_id = w

\* C10: the ranking lists every result once with its weighted score, in
\* descending order of score, and two results of equal score keep the
\* relative order they have in the results list.
C10_StableDescendingRanking ==
    (lpc = "done" /\ Len(results) > 1) =>
        /\ Len(ranked) = Len(results)
        /\ \A i \in 1..Len(results) : \E j \in 1..Len(ranked) :
              /\ ranked[j].workflow_id = results[i].workflow_id
              /\ RatEq(ranked[j].score, WeightedSum(results[i]))
        /\ \A i, j \in 1..Len(ranked) :
              i < j =>
                 /\ ~RatLess(ranked[i].score, ranked[j].score)
                 /\ RatEq(ranked[i].score, ranked[j].score) =>
                       PositionIn(results, ranked[i].workflow_id)
                           < PositionIn(results, ranked[j].workflow_id)

\* C10 witness: two different results of equal score, ranked in input order
\* (not in identifier order) ahead of a lower-scored result that came first.
C10_Witness ==
    /\ lpc = "done"
    /\ Len(ranked) = 3
    /\ RatEq(ranked[1].score, ranked[2].score)
    /\ ranked[1].workflow_id > ranked[2].workflow_id
    /\ RatLess(ranked[3].score, ranked[2].score)
    /\ results[1].workflow_id = ranked[3].workflow_id
    /\ results[2].response # results[3].response


----------------------------------------------------------------------------
(* compare_workflows, and SpecMetrics: an answer is composed, evaluated     *)
(* against source lists, and the evaluations are compared.                  *)

\* Longest answer text of SpecMetrics, in characters.
MaxChars == 5
\* Most evaluations handed to compare_workflows in SpecMetrics.
MaxResults == 1

RECURSIVE SumRat(_)
\* sum(...) over ratios
SumRat(seq) == IF seq = <<>> THEN Zero ELSE RatAdd(Head(seq), SumRat(Tail(seq)))

AverageOverNext(total, n) == Rat(total.num, total.den * (n + 1))

\* sum(...) / len(results)
Average(total, n) == Rat(total.num, total.den * n)

\* The empty dict: a mapping with no key.
EmptyDict == <<>>

CompareWorkflows(rs) ==
    IF rs = <<>> THEN EmptyDict
    ELSE LET n == Len(rs)
             ints(f(_)) == Rat(SumSeq([i \in 1..n |-> f(rs[i])]), 1)
             rats(f(_)) == SumRat([i \in 1..n |-> f(rs[i])])
             num_sources(r) == r.retrieval.num_sources
             source_diversity(r) == r.retrieval.source_diversity
             answer_length(r) == r.answer.answer_length
             citation_count(r) == r.answer.citation_count
             answer_source_overlap(r) == r.answer.answer_source_overlap
             has_citations(r) == IF r.faithfulness.has_citations THEN 1 ELSE 0
             claims_count(r) == r.faithfulness.claims_count
         IN  [workflows |-> [i \in 1..n |-> rs[i].workflow_id],
              retrieval |->
                  [avg_sources |-> Average(ints(num_sources), n),
                   avg_diversity |-> Average(rats(source_diversity), n)],
              answer |->
                  [avg_length |-> Average(ints(answer_length), n),
                   avg_citations |-> Average(ints(citation_count), n),
                   avg_overlap |-> Average(rats(answer_source_overlap), n)],
              faithfulness |->
                  [pct_with_citations |->
                       LET avg == Average(ints(has_citations), n)
                       IN  Rat(avg.num * 100, avg.den),
                   avg_claims |-> Average(ints(claims_count), n)]]

\* What an answer text of SpecMetrics is composed of.
Fragments ==
    {<<"[">>, <<"]">>, <<"\n">>, <<" ">>, <<"K", "i", "l">>, <<"d", "e">>,
     <<"a", "b">>, <<"e", "r", ".">>}

SourceKilde ==
    [id |-> Str(<<"k">>), title |-> Str(<<"K", "i", "l", "d", "e">>), url |-> Str(<<"w">>)]

\* The source lists an answer of SpecMetrics is evaluated against.
SourceLists ==
    {<<>>, <<SourceNoTitle>>, <<SourceAbCd, SourceCdEf>>, <<SourceKilde, SourceAbCd>>}

InitMetrics ==
    /\ body = <<>>
    /\ pc = "receiving"
    /\ result_data = NotParsed
    /\ ClientIdle
    /\ CompareIdle
    /\ response_text = <<>>
    /\ mpc = "composing"
    /\ evaluations = <<>>
    /\ comparison = NotCompared

\* The answer text grows by one fragment.
Compose ==
    /\ mpc = "composing"
    /\ \E f \in Fragments :
          /\ Len(response_text) + Len(f) <= MaxChars
          /\ response_text' = response_text \o f
    /\ UNCHANGED <<parseVars, clientVars, compareVars, mpc, evaluations, comparison>>

\* MetricsCalculator.evaluate_response on the answer and one source list.
EvaluateAnswer ==
    /\ mpc \in {"composing", "evaluating"}
    /\ Len(evaluations) < MaxResults
    /\ \E sources \in SourceLists :
          evaluations' =
              Append(evaluations,
                     EvaluateResponse(Query, Len(evaluations) + 1, response_text, sources))
    /\ mpc' = "evaluating"
    /\ UNCHANGED <<parseVars, clientVars, compareVars, response_text, comparison>>

\* compare_workflows on the evaluations collected so far.
Compare ==
    /\ mpc \in {"composing", "evaluating"}
    /\ comparison' = CompareWorkflows(evaluations)
    /\ mpc' = "compared"
    /\ UNCHANGED <<parseVars, clientVars, compareVars, response_text, evaluations>>

NextMetrics == Compose \/ EvaluateAnswer \/ Compare

SpecMetrics == InitMetrics /\ [][NextMetrics]_vars


----------------------------------------------------------------------------
(* Claims about the metrics, checked under SpecMetrics *)

Compared(n) == mpc = "compared" /\ Len(evaluations) = n

OfInt(k) == Rat(k, 1)

\* C11: compare_workflows of the empty list returns the empty mapping; of a
\* one-element list [r] it returns workflows = [r.workflow_id], every average
\* (sources, diversity, length, citations, overlap, claims) equal to r's own
\* value of that metric, and pct_with_citations 100 when r has citations and
\* 0 otherwise.
C11_CompareWorkflowsEmptyAndSingle ==
    /\ Compared(0) => DOMAIN comparison = {}
    /\ Compared(1) =>
          LET r == evaluations[1]
          IN  /\ comparison.workflows = <<r.workflow_id>>
              /\ RatEq(comparison.retrieval.avg_sources, OfInt(r.retrieval.num_sources))
              /\ RatEq(comparison.retrieval.avg_diversity, r.retrieval.source_diversity)
              /\ RatEq(comparison.answer.avg_length, OfInt(r.answer.answer_length))
              /\ RatEq(comparison.answer.avg_citations, OfInt(r.answer.citation_count))
              /\ RatEq(comparison.answer.avg_overlap, r.answer.answer_source_overlap)
              /\ RatEq(comparison.faithfulness.avg_claims,
                       OfInt(r.faithfulness.claims_count))
              /\ RatEq(comparison.faithfulness.pct_with_citations,
                       OfInt(IF r.faithfulness.has_citations THEN 100 ELSE 0))

\* C11 witness: one evaluation with two sources, a citation and an overlap has
\* been compared; the averages are its values and the percentage is 100.
C11_Witness ==
    /\ Compared(1)
    /\ evaluations[1].retrieval.num_sources = 2
    /\ evaluations[1].answer.citation_count = 1
    /\ RatLess(Zero, evaluations[1].answer.answer_source_overlap)
    /\ evaluations[1].faithfulness.has_citations
    /\ comparison.workflows = <<1>>
    /\ RatEq(comparison.retrieval.avg_sources, OfInt(2))
    /\ RatEq(comparison.faithfulness.pct_with_citations, OfInt(100))


\* The words of a text: its maximal runs of word characters.
WordsOf(text) ==
    {SubSeq(text, ij[1], ij[2]) : ij \in
        {ij \in (1..Len(text)) \X (1..Len(text)) :
            /\ ij[1] <= ij[2]
            /\ \A k \in ij[1]..ij[2] : IsWordChar(text[k])
            /\ ij[1] = 1 \/ ~IsWordChar(text[ij[1] - 1])
            /\ ij[2] = Len(text) \/ ~IsWordChar(text[ij[2] + 1])}}

\* The lowercase words of the titles of a source list; a source without a
\* title has none.
TitleWords(sources) ==
    UNION {WordsOf(Lower(Get(sources[i].title, Str(<<>>)).text)) : i \in 1..Len(sources)}

\* C12: the answer_source_overlap of every evaluated answer lies in [0, 1]:
\* it is the number of unique lowercase answer words that occur among the
\* source-title words, divided by the number of unique answer words, and it
\* is 0 when either word set is empty.
C12_OverlapWithinUnitInterval ==
    \A i \in 1..Len(evaluations) :
        LET e == evaluations[i]
            overlap == e.answer.answer_source_overlap
            response_words == WordsOf(Lower(e.response))
            source_words == TitleWords(e.sources)
        IN  /\ overlap.den > 0
            /\ 0 <= overlap.num
            /\ overlap.num <= overlap.den
            /\ (response_words = {} \/ source_words = {}) => overlap.num = 0
            /\ (response_words # {} /\ source_words # {}) =>
                  /\ Cardinality(response_words \cap source_words)
                         <= Cardinality(response_words)
                  /\ RatEq(overlap, Rat(Cardinality(response_words \cap source_words),
                                        Cardinality(response_words)))

\* C12 witness: an answer of two words, one of them a title word, evaluated
\* against two titled sources to an overlap of one half.
C12_Witness ==
    /\ mpc = "evaluating"
    /\ Len(evaluations) = 1
    /\ evaluations[1].response = <<"a", "b", " ", "d", "e">>
    /\ evaluations[1].sources = <<SourceAbCd, SourceCdEf>>
    /\ RatEq(evaluations[1].answer.answer_source_overlap, Rat(1, 2))


\* C13: in every evaluation the two citation metrics agree: has_citations is
\* true exactly when citation_count is at least 1.
C13_CitationMetricsAgree ==
    \A i \in 1..Len(evaluations) :
        evaluations[i].faithfulness.has_citations
            <=> evaluations[i].answer.citation_count >= 1

\* C13 witness: an answer whose only marker is "kilde", written with a
\* capital, has been evaluated: one citation counted, has_citations true.
C13_Witness ==
    /\ Len(evaluations) = 1
    /\ evaluations[1].response = <<"K", "i", "l", "d", "e">>
    /\ evaluations[1].answer.citation_count = 1
    /\ evaluations[1].faithfulness.has_citations


====
